---- MODULE Spec2Model ----
(***************************************************************************)
(* Model of the MediaPipe WASM adapter utilities:                          *)
(*   - MediaPipeWasmAdapter.createWasmConfig  (utils/mediapipe-wasm-       *)
(*     adapter.ts): locateFile and instantiateWasm with a buffered         *)
(*     fallback;                                                           *)
(*   - MediaPipeWasmAdapter.createWasmLoader  (unnamed/part_000):          *)
(*     locateFile and instantiateWasm with an ok check and no fallback;    *)
(*   - WasmLoader (unnamed/part_000): loadWasm, preloadWasmFiles,          *)
(*     validateWasmFiles.                                                  *)
(* Strings are sequences of one-character strings, so that concatenation   *)
(* and endsWith are computed as the code computes them.  Every await of    *)
(* the code is a suspension point: the step that follows it is one action  *)
(* whose input is the outcome the host delivers.                           *)
(***************************************************************************)
EXTENDS Integers, Sequences, FiniteSets, TLC

VARIABLES wasmPath, basePath, loc, calls, loads, preload, validate, made

vars == <<wasmPath, basePath, loc, calls, loads, preload, validate, made>>

(***************************************************************************)
(* Bounds                                                                  *)
(***************************************************************************)
NumCalls == 2
MaxStemLen == 2

(***************************************************************************)
(* Strings                                                                 *)
(***************************************************************************)
Slash == <<"/">>
DotWasm == <<".", "w", "a", "s", "m">>
DotJs == <<".", "j", "s">>
DefaultPath == <<"/", "w", "a", "s", "m">>
VisionInternal == <<"v", "i", "s", "i", "o", "n", "_", "w", "a", "s", "m", "_", "i", "n", "t", "e", "r", "n", "a", "l">>
VisionNoSimd == <<"v", "i", "s", "i", "o", "n", "_", "w", "a", "s", "m", "_", "n", "o", "s", "i", "m", "d", "_", "i", "n", "t", "e", "r", "n", "a", "l">>
wasmFileName == VisionInternal \o DotWasm
wasmFiles == <<VisionInternal \o DotWasm, VisionNoSimd \o DotWasm>>
testFiles == <<VisionInternal \o DotWasm, VisionInternal \o DotJs>>

\* The base paths an adapter is constructed with: the default and one other.
BasePaths == {DefaultPath, <<"/", "a">>}

\* String.prototype.endsWith
EndsWith(s, suffix) ==
  /\ Len(s) >= Len(suffix)
  /\ SubSeq(s, Len(s) - Len(suffix) + 1, Len(s)) = suffix

\* `${base}/${file}`
JoinPath(base, file) == base \o Slash \o file

(***************************************************************************)
(* locateFile                                                              *)
(***************************************************************************)
Variants == {"config", "loader"}

locateFile_ignoresSuffix(base, path, prefix) == prefix \o path

locateFile(base, path, prefix) ==
  IF EndsWith(path, DotWasm) THEN JoinPath(base, path) ELSE prefix \o path

StemChars == {"v", "."}
Stems == UNION {[1..n -> StemChars] : n \in 0..MaxStemLen}
Extensions == {<<>>, DotWasm, DotJs, DotWasm \o <<"x">>, <<"w", "a", "s", "m">>,
               <<".", "W", "A", "S", "M">>, DotWasm \o DotJs, <<".", "w", "a", "s">>}
Filenames == {stem \o ext : stem \in Stems, ext \in Extensions}
Prefixes == {<<>>, Slash, <<"c", "d", "n", "/">>}

NoLoc == [variant |-> "none", path |-> <<>>, prefix |-> <<>>, out |-> <<>>]

(***************************************************************************)
(* Host values: responses, errors, compiled modules                        *)
(***************************************************************************)
Calls == 1..NumCalls

Statuses == {200, 404}
StatusText(s) == IF s = 200 THEN "OK" ELSE "Not Found"
ContentTypes == {"application/wasm", "text/html", "null"}
Responses == {[status |-> s, statusText |-> StatusText(s), ctype |-> ct] :
                s \in Statuses, ct \in ContentTypes}
NoResp == [status |-> 0, statusText |-> "", ctype |-> "null"]

\* Response.ok
Ok(r) == r.status >= 200 /\ r.status <= 299

\* !contentType || !contentType.includes('application/wasm')
MimeSuspect(ct) == ct = "null" \/ ct # "application/wasm"

\* An error value: the attempt of the call that raised it (1 = streaming,
\* 2 = buffered fallback), its kind, and for `new Error("HTTP s: t")` the
\* status and status text the message carries.
Err(attempt, kind) == [attempt |-> attempt, kind |-> kind, status |-> 0, statusText |-> ""]
HttpErr(attempt, r) == [attempt |-> attempt, kind |-> "HttpError", status |-> r.status, statusText |-> r.statusText]
NoErr == Err(0, "none")

\* The {instance, module} pair one compile-and-instantiate produces; every
\* compile produces fresh objects, named by the call and attempt that made them.
Obj(c, attempt, what) == [call |-> c, attempt |-> attempt, obj |-> what]
WasmModule_cached(c, attempt) == [instance |-> Obj(1, 1, "instance"), module |-> Obj(1, 1, "module")]

WasmModule(c, attempt) == [instance |-> Obj(c, attempt, "instance"), module |-> Obj(c, attempt, "module")]
NoObj == Obj(0, 0, "none")

\* The host rejects streaming instantiation of a response whose status is
\* not ok; for an ok response it may accept or reject (MIME strictness,
\* malformed binary, link errors).
HostMayStream(r) == r.status >= 200 /\ r.status <= 299

(***************************************************************************)
(* instantiateWasm                                                         *)
(***************************************************************************)
IdleCall == [variant |-> "none", pc |-> "idle", resp |-> NoResp, fetched |-> <<>>,
             cb |-> <<>>, raised |-> <<>>, caught |-> NoErr, warned |-> 0,
             result |-> NoObj, error |-> NoErr]

Raise(call, e) == [call EXCEPT !.raised = Append(@, e)]

\* successCallback(wasmModule.instance, wasmModule.module)
InvokeCallback_skipped(call, m) == call

InvokeCallback(call, m) == [call EXCEPT !.cb = Append(@, [instance |-> m.instance, module |-> m.module])]

\* return wasmModule.instance
Return(call, m) == [call EXCEPT !.pc = "resolved", !.result = m.instance, !.resp = NoResp]

\* The catch block of the streaming try.  createWasmConfig logs and starts
\* the fallback by fetching the same URL again; createWasmLoader logs and
\* rethrows.  `response` is local to the try block: it is gone in the catch
\* block and after the function settles.
StreamingCatch_rethrow(call, e) == [call EXCEPT !.pc = "rejected", !.error = e, !.resp = NoResp]

StreamingCatch(call, e) ==
  IF call.variant = "config"
    THEN [call EXCEPT !.pc = "fallbackFetch", !.caught = e, !.resp = NoResp,
                      !.fetched = Append(@, JoinPath(wasmPath, wasmFileName))]
    ELSE [call EXCEPT !.pc = "rejected", !.error = e, !.resp = NoResp]

\* throw fallbackError, in the scope where `error` is the streaming failure
FinalError_streaming(error, fallbackError) == error

FinalError_wrapped(error, fallbackError) == [fallbackError EXCEPT !.kind = "FallbackExhaustedError"]

FinalError(error, fallbackError) == fallbackError

FallbackCatch_retry(call, e) ==
  [call EXCEPT !.pc = "fallbackFetch", !.resp = NoResp,
               !.fetched = Append(@, JoinPath(wasmPath, wasmFileName))]

\* The catch block of the fallback try.
FallbackCatch(call, e) == [call EXCEPT !.pc = "rejected", !.error = FinalError(call.caught, e),
                                        !.resp = NoResp]

\* The statements after a successful compile: callback, log, return.  A
\* callback that throws transfers control to the enclosing catch.
Succeed(call, m, cbThrows, attempt) ==
  LET called == InvokeCallback(call, m)
      e == Err(attempt, "CallbackError")
  IN IF cbThrows
       THEN IF attempt = 1 THEN StreamingCatch(Raise(called, e), e)
                           ELSE FallbackCatch(Raise(called, e), e)
       ELSE Return(called, m)

\* createWasmLoader only: read the content-type header, warn when it is
\* missing or is not application/wasm, and go on to instantiateStreaming.
InspectContentType_strict(call, r) ==
  IF MimeSuspect(r.ctype)
    THEN [call EXCEPT !.pc = "rejected", !.warned = @ + 1, !.resp = NoResp,
                      !.raised = Append(@, Err(1, "MimeError")), !.error = Err(1, "MimeError")]
    ELSE [call EXCEPT !.pc = "streamInstantiate"]

InspectContentType(call, r) ==
  [call EXCEPT !.pc = "streamInstantiate",
               !.warned = IF MimeSuspect(r.ctype) THEN @ + 1 ELSE @]

\* The call, up to its first await: the streaming fetch is issued.
InstantiateWasm(c, v) ==
  /\ calls[c].pc = "idle"
  /\ calls' = [calls EXCEPT ![c] = [IdleCall EXCEPT !.variant = v, !.pc = "streamFetch",
                                      !.fetched = <<JoinPath(wasmPath, wasmFileName)>>]]
  /\ UNCHANGED <<wasmPath, basePath, loc, loads, preload, validate, made>>

\* await fetch(wasmUrl) rejects (network error).
StreamFetchRejects(c) ==
  /\ calls[c].pc = "streamFetch"
  /\ LET e == Err(1, "NetworkError")
     IN calls' = [calls EXCEPT ![c] = StreamingCatch(Raise(@, e), e)]
  /\ UNCHANGED <<wasmPath, basePath, loc, loads, preload, validate, made>>

\* await fetch(wasmUrl) yields a response.  createWasmLoader checks
\* response.ok and the content-type header; createWasmConfig passes the
\* response on unchecked.
StreamFetchResponds(c, r) ==
  /\ calls[c].pc = "streamFetch"
  /\ LET call == [calls[c] EXCEPT !.resp = r]
     IN calls' = [calls EXCEPT ![c] =
          IF call.variant = "loader"
            THEN IF ~Ok(r)
                   THEN StreamingCatch(Raise(call, HttpErr(1, r)), HttpErr(1, r))
                   ELSE InspectContentType(call, r)
            ELSE [call EXCEPT !.pc = "streamInstantiate"]]
  /\ UNCHANGED <<wasmPath, basePath, loc, loads, preload, validate, made>>

\* await WebAssembly.instantiateStreaming(response, imports) rejects.
StreamInstantiateRejects(c) ==
  /\ calls[c].pc = "streamInstantiate"
  /\ LET e == Err(1, "CompileError")
     IN calls' = [calls EXCEPT ![c] = StreamingCatch(Raise(@, e), e)]
  /\ UNCHANGED <<wasmPath, basePath, loc, loads, preload, validate, made>>

\* await WebAssembly.instantiateStreaming(response, imports) resolves.
StreamInstantiateResolves(c, cbThrows) ==
  /\ calls[c].pc = "streamInstantiate"
  /\ HostMayStream(calls[c].resp)
  /\ calls' = [calls EXCEPT ![c] = Succeed(@, WasmModule(c, 1), cbThrows, 1)]
  /\ UNCHANGED <<wasmPath, basePath, loc, loads, preload, validate, made>>

\* Fallback: await fetch(wasmUrl) rejects.
FallbackFetchRejects(c) ==
  /\ calls[c].pc = "fallbackFetch"
  /\ LET e == Err(2, "NetworkError")
     IN calls' = [calls EXCEPT ![c] = FallbackCatch(Raise(@, e), e)]
  /\ UNCHANGED <<wasmPath, basePath, loc, loads, preload, validate, made>>

\* Fallback: await fetch(wasmUrl) yields a response; its status is not looked at.
FallbackFetchResponds(c, r) ==
  /\ calls[c].pc = "fallbackFetch"
  /\ calls' = [calls EXCEPT ![c] = [@ EXCEPT !.resp = r, !.pc = "arrayBuffer"]]
  /\ UNCHANGED <<wasmPath, basePath, loc, loads, preload, validate, made>>

\* Fallback: await response.arrayBuffer() rejects (body read fails).
ArrayBufferRejects(c) ==
  /\ calls[c].pc = "arrayBuffer"
  /\ LET e == Err(2, "BodyReadError")
     IN calls' = [calls EXCEPT ![c] = FallbackCatch(Raise(@, e), e)]
  /\ UNCHANGED <<wasmPath, basePath, loc, loads, preload, validate, made>>

\* Fallback: await response.arrayBuffer() resolves.
ArrayBufferResolves(c) ==
  /\ calls[c].pc = "arrayBuffer"
  /\ calls' = [calls EXCEPT ![c] = [@ EXCEPT !.pc = "bufferInstantiate"]]
  /\ UNCHANGED <<wasmPath, basePath, loc, loads, preload, validate, made>>

\* Fallback: await WebAssembly.instantiate(wasmBuffer, imports) rejects.
BufferInstantiateRejects(c) ==
  /\ calls[c].pc = "bufferInstantiate"
  /\ LET e == Err(2, "CompileError")
     IN calls' = [calls EXCEPT ![c] = FallbackCatch(Raise(@, e), e)]
  /\ UNCHANGED <<wasmPath, basePath, loc, loads, preload, validate, made>>

\* Fallback: await WebAssembly.instantiate(wasmBuffer, imports) resolves.
BufferInstantiateResolves(c, cbThrows) ==
  /\ calls[c].pc = "bufferInstantiate"
  /\ calls' = [calls EXCEPT ![c] = Succeed(@, WasmModule(c, 2), cbThrows, 2)]
  /\ UNCHANGED <<wasmPath, basePath, loc, loads, preload, validate, made>>

(***************************************************************************)
(* WasmLoader.loadWasm and preloadWasmFiles                                *)
(***************************************************************************)
Files == 1..Len(wasmFiles)
Null == Obj(0, 0, "null")

\* One loadWasm(file) call together with the .catch chained on it by
\* preloadWasmFiles: `promise` is the state of loadWasm's own promise,
\* `mapped` that of the promise .catch returns (the one Promise.all sees).
IdleLoad == [pc |-> "idle", url |-> <<>>, resp |-> NoResp, warned |-> 0,
             value |-> NoObj, error |-> NoErr,
             mapped |-> "pending", mappedValue |-> NoObj]

IdlePreload == [pc |-> "idle", all |-> "pending", results |-> <<>>]

\* .catch(err => { console.warn(...); return null })
MaskFailure_rethrow(ld) == [ld EXCEPT !.mapped = "rejected"]

MaskFailure(ld) == [ld EXCEPT !.mapped = "fulfilled", !.mappedValue = Null]

\* loadWasm's catch block: log and rethrow; then the chained .catch runs.
LoadFails(ld, e) == MaskFailure([ld EXCEPT !.pc = "rejected", !.error = e])

\* return wasmModule.instance; the chained .catch passes the value through.
LoadReturns(ld, m) == [ld EXCEPT !.pc = "resolved", !.value = m.instance,
                                 !.mapped = "fulfilled", !.mappedValue = m.instance]

StartLoad_lazy(f) ==
  IF f = 1 THEN [IdleLoad EXCEPT !.pc = "fetch", !.url = JoinPath(basePath, wasmFiles[f])]
           ELSE IdleLoad

\* loadWasm up to its first await.
StartLoad(f) == [IdleLoad EXCEPT !.pc = "fetch", !.url = JoinPath(basePath, wasmFiles[f])]

PromiseAll_any(ls) ==
  IF \E f \in Files : ls[f].mapped = "fulfilled" THEN "fulfilled" ELSE "pending"

\* Promise.all over the mapped promises: rejects as soon as one of them
\* rejects, fulfils when all have fulfilled.
PromiseAll(ls) ==
  IF \E f \in Files : ls[f].mapped = "rejected" THEN "rejected"
  ELSE IF \A f \in Files : ls[f].mapped = "fulfilled" THEN "fulfilled"
  ELSE "pending"

\* preloadWasmFiles up to its await: wasmFiles.map starts every load.
PreloadWasmFiles ==
  /\ preload.pc = "idle"
  /\ loads' = [f \in Files |-> StartLoad(f)]
  /\ preload' = [preload EXCEPT !.pc = "waiting"]
  /\ UNCHANGED <<wasmPath, basePath, loc, calls, validate, made>>

\* loadWasm: await fetch rejects.
LoadFetchRejects(f) ==
  /\ loads[f].pc = "fetch"
  /\ loads' = [loads EXCEPT ![f] = LoadFails(@, Err(1, "NetworkError"))]
  /\ UNCHANGED <<wasmPath, basePath, loc, calls, preload, validate, made>>

\* loadWasm: await fetch yields a response; ok check, content-type warning.
LoadFetchResponds(f, r) ==
  /\ loads[f].pc = "fetch"
  /\ LET ld == [loads[f] EXCEPT !.resp = r]
     IN loads' = [loads EXCEPT ![f] =
          IF ~Ok(r)
            THEN LoadFails(ld, HttpErr(1, r))
            ELSE [ld EXCEPT !.pc = "stream",
                            !.warned = IF MimeSuspect(r.ctype) THEN @ + 1 ELSE @]]
  /\ UNCHANGED <<wasmPath, basePath, loc, calls, preload, validate, made>>

\* loadWasm: await WebAssembly.instantiateStreaming(response) rejects.
LoadStreamRejects(f) ==
  /\ loads[f].pc = "stream"
  /\ loads' = [loads EXCEPT ![f] = LoadFails(@, Err(1, "CompileError"))]
  /\ UNCHANGED <<wasmPath, basePath, loc, calls, preload, validate, made>>

\* loadWasm: await WebAssembly.instantiateStreaming(response) resolves.
LoadStreamResolves(f) ==
  /\ loads[f].pc = "stream"
  /\ HostMayStream(loads[f].resp)
  /\ loads' = [loads EXCEPT ![f] = LoadReturns(@, WasmModule(f, 1))]
  /\ UNCHANGED <<wasmPath, basePath, loc, calls, preload, validate, made>>

\* await Promise.all(...) settles.  Fulfilled: the completion log; rejected:
\* the outer catch logs.  Either way the function returns normally.
PreloadSettles ==
  /\ preload.pc = "waiting"
  /\ PromiseAll(loads) # "pending"
  /\ preload' = [preload EXCEPT !.pc = "resolved", !.all = PromiseAll(loads),
                                !.results = IF PromiseAll(loads) = "fulfilled"
                                              THEN [f \in Files |-> loads[f].mappedValue]
                                              ELSE <<>>]
  /\ UNCHANGED <<wasmPath, basePath, loc, calls, loads, validate, made>>

(***************************************************************************)
(* WasmLoader.validateWasmFiles                                            *)
(***************************************************************************)
\* i: index of the file whose HEAD request is in flight; requested: the
\* URLs requested so far; checks: the outcome of every completed request.
IdleValidate == [pc |-> "idle", i |-> 0, requested |-> <<>>, checks |-> <<>>, result |-> FALSE]

\* The loop body after the await: ok -> log and go on to the next file (or
\* fall out of the loop and return true); otherwise log and return false.
AfterHead_noReturn(v, outcome) ==
  LET w == [v EXCEPT !.checks = Append(@, outcome)]
  IN IF v.i < Len(testFiles)
       THEN [w EXCEPT !.i = @ + 1,
                      !.requested = Append(@, JoinPath(basePath, testFiles[v.i + 1]))]
       ELSE [w EXCEPT !.pc = "done", !.result = TRUE]

AfterHead_noCatch(v, outcome) ==
  LET w == [v EXCEPT !.checks = Append(@, outcome)]
  IN IF outcome = "ok"
       THEN IF v.i < Len(testFiles)
              THEN [w EXCEPT !.i = @ + 1,
                             !.requested = Append(@, JoinPath(basePath, testFiles[v.i + 1]))]
              ELSE [w EXCEPT !.pc = "done", !.result = TRUE]
       ELSE IF outcome = "networkError"
              THEN [w EXCEPT !.pc = "rejected"]
              ELSE [w EXCEPT !.pc = "done", !.result = FALSE]

AfterHead(v, outcome) ==
  LET w == [v EXCEPT !.checks = Append(@, outcome)]
  IN IF outcome = "ok"
       THEN IF v.i < Len(testFiles)
              THEN [w EXCEPT !.i = @ + 1,
                             !.requested = Append(@, JoinPath(basePath, testFiles[v.i + 1]))]
              ELSE [w EXCEPT !.pc = "done", !.result = TRUE]
       ELSE [w EXCEPT !.pc = "done", !.result = FALSE]

\* validateWasmFiles up to its first await: HEAD for the first file.
ValidateWasmFiles ==
  /\ validate.pc = "idle"
  /\ validate' = [IdleValidate EXCEPT !.pc = "head", !.i = 1,
                                      !.requested = <<JoinPath(basePath, testFiles[1])>>]
  /\ UNCHANGED <<wasmPath, basePath, loc, calls, loads, preload, made>>

\* await fetch(url, {method: 'HEAD'}) rejects: the catch returns false.
HeadRejects ==
  /\ validate.pc = "head"
  /\ validate' = AfterHead(validate, "networkError")
  /\ UNCHANGED <<wasmPath, basePath, loc, calls, loads, preload, made>>

\* await fetch(url, {method: 'HEAD'}) yields a response.
HeadResponds(r) ==
  /\ validate.pc = "head"
  /\ validate' = AfterHead(validate, IF Ok(r) THEN "ok" ELSE "badStatus")
  /\ UNCHANGED <<wasmPath, basePath, loc, calls, loads, preload, made>>

(***************************************************************************)
(* locateFile as an operation                                              *)
(***************************************************************************)
LocateFile(v, path, prefix) ==
  /\ loc' = [variant |-> v, path |-> path, prefix |-> prefix,
             out |-> locateFile(wasmPath, path, prefix)]
  /\ UNCHANGED <<wasmPath, basePath, calls, loads, preload, validate, made>>

(***************************************************************************)
(* The factory methods of the adapter                                      *)
(***************************************************************************)
\* made: which hook objects have been created, and the wasmLoaderPath of
\* the options object getFilesetResolverOptions returned last.
NoHooks == [config |-> FALSE, loader |-> FALSE, options |-> <<>>]
HooksMade == [config |-> TRUE, loader |-> TRUE, options |-> <<>>]

\* createWasmConfig(): returns {locateFile, instantiateWasm}.
CreateWasmConfig ==
  /\ made' = [made EXCEPT !.config = TRUE]
  /\ UNCHANGED <<wasmPath, basePath, loc, calls, loads, preload, validate>>

\* createWasmLoader(): returns {locateFile, instantiateWasm}.
CreateWasmLoader ==
  /\ made' = [made EXCEPT !.loader = TRUE]
  /\ UNCHANGED <<wasmPath, basePath, loc, calls, loads, preload, validate>>

\* getFilesetResolverOptions(): calls createWasmLoader and returns
\* {wasmLoaderPath: this.wasmPath, locateFile}.
GetFilesetResolverOptions_resets ==
  /\ made' = [made EXCEPT !.loader = TRUE, !.options = wasmPath]
  /\ wasmPath' = DefaultPath
  /\ UNCHANGED <<basePath, loc, calls, loads, preload, validate>>

GetFilesetResolverOptions ==
  /\ made' = [made EXCEPT !.loader = TRUE, !.options = wasmPath]
  /\ UNCHANGED <<wasmPath, basePath, loc, calls, loads, preload, validate>>

(***************************************************************************)
(* Specifications                                                          *)
(***************************************************************************)
\* State after construction: `new MediaPipeWasmAdapter(p)`, `new WasmLoader(b)`.
Init ==
  /\ wasmPath \in BasePaths
  /\ basePath = DefaultPath
  /\ loc = NoLoc
  /\ calls = [c \in Calls |-> IdleCall]
  /\ loads = [f \in Files |-> IdleLoad]
  /\ preload = IdlePreload
  /\ validate = IdleValidate
  /\ made = HooksMade

InitLoader ==
  /\ wasmPath = DefaultPath
  /\ basePath \in BasePaths
  /\ loc = NoLoc
  /\ calls = [c \in Calls |-> IdleCall]
  /\ loads = [f \in Files |-> IdleLoad]
  /\ preload = IdlePreload
  /\ validate = IdleValidate
  /\ made = HooksMade

\* instantiateWasm calls of both adapter variants, interleaved.
Next ==
  \/ \E c \in Calls, v \in Variants : InstantiateWasm(c, v)
  \/ \E c \in Calls : StreamFetchRejects(c)
  \/ \E c \in Calls, r \in Responses : StreamFetchResponds(c, r)
  \/ \E c \in Calls : StreamInstantiateRejects(c)
  \/ \E c \in Calls, cbThrows \in BOOLEAN : StreamInstantiateResolves(c, cbThrows)
  \/ \E c \in Calls : FallbackFetchRejects(c)
  \/ \E c \in Calls, r \in Responses : FallbackFetchResponds(c, r)
  \/ \E c \in Calls : ArrayBufferRejects(c)
  \/ \E c \in Calls : ArrayBufferResolves(c)
  \/ \E c \in Calls : BufferInstantiateRejects(c)
  \/ \E c \in Calls, cbThrows \in BOOLEAN : BufferInstantiateResolves(c, cbThrows)

Spec == Init /\ [][Next]_vars

\* locateFile calls of both adapter variants.
NextLocate ==
  \E v \in Variants, path \in Filenames, prefix \in Prefixes : LocateFile(v, path, prefix)

SpecLocate == Init /\ [][NextLocate]_vars

\* WasmLoader: preloadWasmFiles and validateWasmFiles, interleaved.
NextLoader ==
  \/ PreloadWasmFiles
  \/ \E f \in Files : LoadFetchRejects(f)
  \/ \E f \in Files, r \in Responses : LoadFetchResponds(f, r)
  \/ \E f \in Files : LoadStreamRejects(f)
  \/ \E f \in Files : LoadStreamResolves(f)
  \/ PreloadSettles
  \/ ValidateWasmFiles
  \/ HeadRejects
  \/ \E r \in Responses : HeadResponds(r)

SpecLoader == InitLoader /\ [][NextLoader]_vars

\* Every operation of both classes, in any order: the factory methods, the
\* hooks of the objects they returned (one instantiateWasm call), and the
\* WasmLoader operations, on two adapters constructed with different paths.
\* The host answers with a good response or a 404 page, or fails.
InitAll ==
  /\ wasmPath = <<"/", "a">>
  /\ basePath = DefaultPath
  /\ loc = NoLoc
  /\ calls = [c \in Calls |-> IdleCall]
  /\ loads = [f \in Files |-> IdleLoad]
  /\ preload = IdlePreload
  /\ validate = IdleValidate
  /\ made = NoHooks

OneCall == {1}
HookFilenames == {VisionInternal \o DotWasm, VisionInternal \o DotJs}
HookPrefixes == {Slash}
HookResponses == {[status |-> 200, statusText |-> "OK", ctype |-> "application/wasm"],
                  [status |-> 404, statusText |-> "Not Found", ctype |-> "text/html"]}

NextAll ==
  \/ CreateWasmConfig
  \/ CreateWasmLoader
  \/ GetFilesetResolverOptions
  \/ \E v \in Variants, path \in HookFilenames, prefix \in HookPrefixes :
       made[v] /\ LocateFile(v, path, prefix)
  \/ \E c \in OneCall, v \in Variants : made[v] /\ InstantiateWasm(c, v)
  \/ \E c \in OneCall : StreamFetchRejects(c)
  \/ \E c \in OneCall, r \in HookResponses : StreamFetchResponds(c, r)
  \/ \E c \in OneCall : StreamInstantiateRejects(c)
  \/ \E c \in OneCall, cbThrows \in BOOLEAN : StreamInstantiateResolves(c, cbThrows)
  \/ \E c \in OneCall : FallbackFetchRejects(c)
  \/ \E c \in OneCall, r \in HookResponses : FallbackFetchResponds(c, r)
  \/ \E c \in OneCall : ArrayBufferRejects(c)
  \/ \E c \in OneCall : ArrayBufferResolves(c)
  \/ \E c \in OneCall : BufferInstantiateRejects(c)
  \/ \E c \in OneCall, cbThrows \in BOOLEAN : BufferInstantiateResolves(c, cbThrows)
  \/ PreloadWasmFiles
  \/ \E f \in Files : LoadFetchRejects(f)
  \/ \E f \in Files, r \in HookResponses : LoadFetchResponds(f, r)
  \/ \E f \in Files : LoadStreamRejects(f)
  \/ \E f \in Files : LoadStreamResolves(f)
  \/ PreloadSettles
  \/ ValidateWasmFiles
  \/ HeadRejects
  \/ \E r \in HookResponses : HeadResponds(r)

SpecAll == InitAll /\ [][NextAll]_vars

\* One instantiateWasm call, preloadWasmFiles and validateWasmFiles, with a
\* host in which every fetch, body read and compile that was started
\* eventually completes, and the continuation of a settled Promise.all runs.
\* Whether and when an operation is called is up to the caller.
InitLive ==
  /\ wasmPath = DefaultPath
  /\ basePath = DefaultPath
  /\ loc = NoLoc
  /\ calls = [c \in Calls |-> IdleCall]
  /\ loads = [f \in Files |-> IdleLoad]
  /\ preload = IdlePreload
  /\ validate = IdleValidate
  /\ made = HooksMade

\* The host completes the step the call is awaiting.
HostCompletes(c) ==
  \/ StreamFetchRejects(c)
  \/ \E r \in Responses : StreamFetchResponds(c, r)
  \/ StreamInstantiateRejects(c)
  \/ \E cbThrows \in BOOLEAN : StreamInstantiateResolves(c, cbThrows)
  \/ FallbackFetchRejects(c)
  \/ \E r \in Responses : FallbackFetchResponds(c, r)
  \/ ArrayBufferRejects(c)
  \/ ArrayBufferResolves(c)
  \/ BufferInstantiateRejects(c)
  \/ \E cbThrows \in BOOLEAN : BufferInstantiateResolves(c, cbThrows)

\* The host completes the step loadWasm(file f) is awaiting.
LoadCompletes(f) ==
  \/ LoadFetchRejects(f)
  \/ \E r \in Responses : LoadFetchResponds(f, r)
  \/ LoadStreamRejects(f)
  \/ LoadStreamResolves(f)

\* The host completes the HEAD request validateWasmFiles is awaiting.
HeadCompletes == HeadRejects \/ \E r \in Responses : HeadResponds(r)

NextLive ==
  \/ \E c \in OneCall, v \in Variants : InstantiateWasm(c, v)
  \/ \E c \in OneCall : HostCompletes(c)
  \/ PreloadWasmFiles
  \/ \E f \in Files : LoadCompletes(f)
  \/ PreloadSettles
  \/ ValidateWasmFiles
  \/ HeadCompletes

HostFairness ==
  /\ \A c \in OneCall : WF_vars(HostCompletes(c))
  /\ \A f \in Files : WF_vars(LoadCompletes(f))
  /\ WF_vars(HeadCompletes)
  /\ WF_vars(PreloadSettles)

SpecLive == InitLive /\ [][NextLive]_vars /\ HostFairness

(***************************************************************************)
(* Properties                                                              *)
(***************************************************************************)
Settled(call) == call.pc \in {"resolved", "rejected"}

\* The streaming attempt of the call failed in a fetch or compile step.
StreamingFailed(call) ==
  /\ call.raised # <<>>
  /\ call.raised[1].attempt = 1
  /\ call.raised[1].kind \in {"NetworkError", "HttpError", "CompileError"}

\* A step of the call's attempt a raised an error.
AttemptFailed(call, a) == \E i \in 1..Len(call.raised) : call.raised[i].attempt = a

\* The call was rejected after both of its attempts failed.
BothFailed(call) == call.pc = "rejected" /\ AttemptFailed(call, 1) /\ AttemptFailed(call, 2)

\* The fetch, body read and in-memory compile of the fallback all succeeded.
FallbackIOSucceeded(call) ==
  /\ Settled(call)
  /\ \A i \in 1..Len(call.raised) :
       call.raised[i].attempt = 2 => call.raised[i].kind = "CallbackError"

HasDotWasmSuffix(path) ==
  /\ Len(path) >= 5
  /\ \A i \in 1..5 : path[Len(path) - 5 + i] = DotWasm[i]

NoRequestIssued ==
  /\ \A c \in Calls : calls[c].fetched = <<>>
  /\ \A f \in Files : loads[f].pc = "idle"
  /\ validate.requested = <<>>

\* C1: locateFile(path, prefix) returns wasmPath + "/" + path when path ends
\* with ".wasm", whatever the prefix, and prefix + path otherwise; it issues
\* no request and always returns.
C1_LocateFile ==
  loc.variant # "none" =>
    /\ HasDotWasmSuffix(loc.path) => loc.out = wasmPath \o <<"/">> \o loc.path
    /\ ~HasDotWasmSuffix(loc.path) => loc.out = loc.prefix \o loc.path
    /\ NoRequestIssued

C1_Witness ==
  /\ loc.variant = "loader"
  /\ HasDotWasmSuffix(loc.path)
  /\ loc.prefix = <<"c", "d", "n", "/">>
  /\ Len(loc.path) > 5

\* C2: when the streaming fetch and the streaming instantiate of a call
\* succeed, the callback is invoked exactly once in that call, and the
\* instance the promise resolves to is the callback's first argument.
C2_CallbackExactlyOnce ==
  \A c \in Calls :
    (calls[c].cb # <<>> /\ calls[c].cb[1].instance.attempt = 1) =>
      /\ Len(calls[c].cb) = 1
      /\ calls[c].pc = "resolved" => calls[c].result = calls[c].cb[1].instance

\* C3 (as stated): a streaming failure is never what the caller gets: a call
\* whose streaming attempt failed is rejected only when a step of a fallback
\* attempt failed too.
C3_StreamingFailureAlwaysRecovered ==
  \A c \in Calls :
    (calls[c].pc = "rejected" /\ StreamingFailed(calls[c])) => AttemptFailed(calls[c], 2)

\* C3 (amended): in the createWasmConfig variant, a streaming failure is
\* never propagated; when the fallback's fetch, body read and compile
\* succeed the callback is invoked with the fallback's instance and module
\* and, unless that callback throws, the promise resolves with the
\* fallback's instance.  The createWasmLoader variant rethrows the streaming
\* failure.
C3_FallbackRecovers ==
  \A c \in Calls :
    StreamingFailed(calls[c]) =>
      IF calls[c].variant = "config"
        THEN /\ calls[c].pc = "rejected" => calls[c].error.attempt = 2
             /\ FallbackIOSucceeded(calls[c]) =>
                  /\ calls[c].cb # <<>>
                  /\ calls[c].cb[Len(calls[c].cb)] = WasmModule(c, 2)
                  /\ ~AttemptFailed(calls[c], 2) =>
                       calls[c].pc = "resolved" /\ calls[c].result = Obj(c, 2, "instance")
        ELSE calls[c].pc = "rejected" /\ calls[c].error = calls[c].raised[1]

C3_Witness ==
  \E c \in Calls :
    /\ calls[c].variant = "config"
    /\ StreamingFailed(calls[c])
    /\ calls[c].pc = "resolved"
    /\ calls[c].result = Obj(c, 2, "instance")

\* C4 (as stated): when both attempts of a call fail, the promise rejects
\* with an error of kind FallbackExhaustedError.
C4_RejectsWithFallbackExhausted ==
  \A c \in Calls : BothFailed(calls[c]) => calls[c].error.kind = "FallbackExhaustedError"

\* C4 (amended): when both attempts of a call fail, the promise rejects with
\* the very error value the failing step of the fallback attempt raised,
\* rethrown unwrapped.
C4_RejectsWithRawFallbackError ==
  \A c \in Calls :
    BothFailed(calls[c]) =>
      /\ calls[c].error = calls[c].raised[Len(calls[c].raised)]
      /\ calls[c].error.attempt = 2
      /\ calls[c].error.kind \in {"NetworkError", "BodyReadError", "CompileError", "CallbackError"}

C4_Witness ==
  \E c \in Calls :
    /\ BothFailed(calls[c])
    /\ calls[c].caught.kind = "CompileError"
    /\ calls[c].error.kind = "NetworkError"

\* C5: a response with a non-ok status is never handed to a compile step
\* (streaming instantiate, or body read and buffered instantiate), and a call
\* rejected by its own status check carries the response's status and text.
C5_NonOkNeverCompiled ==
  \A c \in Calls :
    /\ calls[c].pc \in {"streamInstantiate", "arrayBuffer", "bufferInstantiate"} => Ok(calls[c].resp)
    /\ (calls[c].pc = "rejected" /\ calls[c].error.kind = "HttpError") =>
         /\ ~Ok([status |-> calls[c].error.status])
         /\ calls[c].error.statusText = StatusText(calls[c].error.status)

\* C6: preloadWasmFiles never rejects; every file's load is started, and
\* when preloadWasmFiles resolves every load has run to its own completion,
\* a failed one recorded as null.
C6_PreloadMasksFailures ==
  /\ preload.pc # "rejected"
  /\ preload.pc # "idle" => \A f \in Files : loads[f].pc # "idle"
  /\ preload.pc = "resolved" =>
       /\ \A f \in Files : loads[f].pc \in {"resolved", "rejected"}
       /\ Len(preload.results) = Len(wasmFiles)
       /\ \A f \in Files :
            preload.results[f] = IF loads[f].pc = "rejected" THEN Null ELSE loads[f].value

C6_Witness ==
  /\ preload.pc = "resolved"
  /\ loads[1].pc = "rejected"
  /\ loads[1].error.kind = "NetworkError"
  /\ loads[2].pc = "resolved"

\* C7: validateWasmFiles requests its files in list order, one at a time;
\* a request is issued only after every earlier check completed with an ok
\* status, and after a failed check it returns false with no later request.
C7_ValidateSequentialShortCircuit ==
  /\ Len(validate.requested) <= Len(validate.checks) + 1
  /\ \A i \in 1..Len(validate.requested) :
       /\ validate.requested[i] = basePath \o <<"/">> \o testFiles[i]
       /\ \A j \in 1..(i - 1) : j <= Len(validate.checks) /\ validate.checks[j] = "ok"
  /\ \A i \in 1..Len(validate.checks) :
       validate.checks[i] # "ok" =>
         /\ validate.pc = "done"
         /\ validate.result = FALSE
         /\ Len(validate.requested) = i

C7_Witness ==
  /\ validate.pc = "done"
  /\ validate.checks = <<"badStatus">>
  /\ Len(validate.requested) = 1
  /\ Len(testFiles) > 1

\* C8: validateWasmFiles never rejects; it resolves to true exactly when the
\* HEAD request of every file completed with an ok status, and to false on
\* a network error or a non-ok status.
C8_ValidateBooleanResult ==
  /\ validate.pc # "rejected"
  /\ validate.result \in BOOLEAN
  /\ validate.pc = "done" =>
       (validate.result = TRUE <=>
          /\ Len(validate.checks) = Len(testFiles)
          /\ \A i \in 1..Len(testFiles) : validate.checks[i] = "ok")
  /\ validate.pc # "done" => validate.result = FALSE

C8_Witness ==
  /\ validate.pc = "done"
  /\ validate.result = FALSE
  /\ validate.checks = <<"ok", "networkError">>

\* C9: a call's promise resolves only after its callback was invoked with
\* the (instance, module) pair of one compile, and it resolves to the
\* instance given to that invocation.
C9_CallbackBeforeResolve ==
  \A c \in Calls :
    calls[c].pc = "resolved" =>
      /\ calls[c].cb # <<>>
      /\ LET last == calls[c].cb[Len(calls[c].cb)]
         IN /\ last.instance = calls[c].result
            /\ last.instance.obj = "instance"
            /\ last.module = Obj(c, last.instance.attempt, "module")
            /\ last.instance.call = c

C9_Witness ==
  \E c \in Calls :
    /\ calls[c].pc = "resolved"
    /\ calls[c].raised = <<Err(1, "CompileError")>>
    /\ calls[c].result = Obj(c, 2, "instance")
    /\ Len(calls[c].cb) = 1

\* C10: when both attempts of a call fail, the error the promise rejects
\* with comes from the fallback attempt and is not the streaming attempt's
\* error.
C10_FinalErrorIsFallbackError ==
  \A c \in Calls :
    BothFailed(calls[c]) =>
      /\ calls[c].error.attempt = 2
      /\ calls[c].error # calls[c].caught
      /\ \A i \in 1..Len(calls[c].raised) :
           calls[c].raised[i].attempt = 1 => calls[c].error # calls[c].raised[i]

C10_Witness ==
  \E c \in Calls :
    /\ BothFailed(calls[c])
    /\ calls[c].caught = Err(1, "NetworkError")
    /\ calls[c].error = Err(2, "CompileError")

C12_CallbackAtMostOnce ==
  \A c \in Calls : Len(calls[c].cb) <= 1

\* C13: preloadWasmFiles issues one fetch per file of its list, to basePath +
\* "/" + file, all of them before it waits; a load's request is never
\* reissued; the loads are in flight together; preloadWasmFiles resolves
\* only after every load has settled.
C13_PreloadConcurrentLoads ==
  /\ [](/\ preload.pc # "idle" =>
             \A f \in Files : /\ loads[f].pc # "idle"
                              /\ loads[f].url = basePath \o <<"/">> \o wasmFiles[f]
        /\ preload.pc = "idle" => \A f \in Files : loads[f].pc = "idle" /\ loads[f].url = <<>>
        /\ preload.pc = "resolved" =>
             \A f \in Files : loads[f].pc \in {"resolved", "rejected"} /\ loads[f].mapped = "fulfilled")
  /\ [][\A f \in Files : loads[f].pc # "idle" => loads'[f].url = loads[f].url]_vars

\* The second file's load has completed while the first file's fetch is
\* still in flight.
C13_Witness ==
  /\ preload.pc = "waiting"
  /\ loads[1].pc = "fetch"
  /\ loads[2].pc = "resolved"

\* C14: in createWasmLoader a response with ok status goes on to
\* instantiateStreaming whatever its content-type header; a missing or
\* non-wasm header only produces a warning, so after such a warning the call
\* can fail only in the compile step or the callback.  createWasmConfig does
\* not look at the header at all.
C14_ContentTypeOnlyWarns ==
  \A c \in Calls :
    /\ calls[c].variant = "config" => calls[c].warned = 0
    /\ calls[c].warned \in {0, 1}
    /\ (calls[c].variant = "loader" /\ calls[c].pc = "streamInstantiate") =>
         /\ Ok(calls[c].resp)
         /\ calls[c].warned = 1 <=> calls[c].resp.ctype # "application/wasm"
    /\ (calls[c].warned = 1 /\ calls[c].pc = "rejected") =>
         calls[c].error \in {Err(1, "CompileError"), Err(1, "CallbackError")}
    /\ calls[c].warned = 1 => calls[c].pc \in {"streamInstantiate", "resolved", "rejected"}

C14_Witness ==
  \E c \in Calls :
    /\ calls[c].variant = "loader"
    /\ calls[c].warned = 1
    /\ calls[c].pc = "resolved"
    /\ calls[c].result = Obj(c, 1, "instance")

\* C15: interleaved calls are independent.  Every instance and module a
\* call hands to its callback or resolves to was produced by a compile of
\* that same call; whether a call started its fallback, resolved or rejected
\* is fixed by the errors its own steps raised; a step changes the record of
\* one call only and leaves the shared base path alone.
C15_CallsIndependent ==
  /\ [](\A c \in Calls :
          /\ \A i \in 1..Len(calls[c].cb) :
               /\ calls[c].cb[i].instance.call = c
               /\ calls[c].cb[i].module.call = c
               /\ calls[c].cb[i].instance.attempt = calls[c].cb[i].module.attempt
          /\ calls[c].result.call \in {0, c}
          /\ calls[c].pc = "resolved" <=> calls[c].result # NoObj
          /\ calls[c].pc = "rejected" <=> calls[c].error # NoErr
          /\ calls[c].pc = "rejected" =>
               /\ calls[c].raised # <<>>
               /\ calls[c].error = calls[c].raised[Len(calls[c].raised)]
          /\ Len(calls[c].fetched) = 2 <=>
               (calls[c].variant = "config" /\ AttemptFailed(calls[c], 1)))
  /\ [][/\ wasmPath' = wasmPath
        /\ \A c, d \in Calls :
             (c # d /\ calls'[c] # calls[c]) => calls'[d] = calls[d]]_vars

\* Two calls in flight together: one has resolved through its fallback with
\* its own instance while the other, started meanwhile, is still compiling.
C15_Witness ==
  \E c, d \in Calls :
    /\ c # d
    /\ c > d
    /\ calls[c].pc = "resolved"
    /\ calls[c].result = Obj(c, 2, "instance")
    /\ calls[c].cb = <<WasmModule(c, 2)>>
    /\ calls[d].pc = "streamInstantiate"
    /\ calls[d].variant = "loader"

\* C16: the base paths set by the constructors are never changed by any
\* operation, whether it succeeds or fails, and the options object reports
\* the adapter's path.
C16_BasePathImmutable ==
  /\ [](made.options \in {<<>>, wasmPath})
  /\ [][wasmPath' = wasmPath /\ basePath' = basePath]_vars

\* Every operation has run, with failures among them, on non-default paths.
C16_Witness ==
  /\ wasmPath # basePath
  /\ made = [config |-> TRUE, loader |-> TRUE, options |-> wasmPath]
  /\ loc.variant = "config" /\ loc.out = wasmPath \o <<"/">> \o VisionInternal \o DotWasm
  /\ calls[1].pc = "rejected" /\ calls[1].variant = "config"
  /\ preload.pc = "resolved" /\ loads[1].pc = "rejected" /\ loads[2].pc = "resolved"
  /\ validate.pc = "done" /\ validate.result = FALSE

\* C17: when the host eventually completes every fetch, body read and
\* compile, every instantiateWasm, preloadWasmFiles and validateWasmFiles
\* call eventually settles; and an operation waiting for a fetch moves on
\* only in a step in which that fetch completes, with a response or with
\* an error of the fetch or of the status check (there is no timeout).
C17_EventuallySettles ==
  /\ \A c \in OneCall : (calls[c].pc # "idle") ~> Settled(calls[c])
  /\ (preload.pc # "idle") ~> (preload.pc = "resolved")
  /\ (validate.pc # "idle") ~> (validate.pc = "done")
  /\ [][/\ \A c \in OneCall :
             (calls[c].pc \in {"streamFetch", "fallbackFetch"} /\ calls'[c] # calls[c]) =>
               \/ calls'[c].resp \in Responses
               \/ /\ Len(calls'[c].raised) = Len(calls[c].raised) + 1
                  /\ calls'[c].raised[Len(calls'[c].raised)].kind \in {"NetworkError", "HttpError"}
        /\ \A f \in Files :
             (loads[f].pc = "fetch" /\ loads'[f] # loads[f]) =>
               \/ loads'[f].resp \in Responses
               \/ loads'[f].error.kind = "NetworkError"
        /\ (validate.pc = "head" /\ validate' # validate) =>
             Len(validate'.checks) = Len(validate.checks) + 1
        /\ (preload.pc = "waiting" /\ preload' # preload) =>
             \A f \in Files : loads[f].pc \in {"resolved", "rejected"}]_vars

\* All three operations have settled, the instantiateWasm call through its fallback.
C17_Witness ==
  /\ calls[1].pc = "resolved" /\ calls[1].result = Obj(1, 2, "instance")
  /\ preload.pc = "resolved" /\ loads[1].pc = "resolved" /\ loads[2].pc = "rejected"
  /\ validate.pc = "done" /\ validate.result = TRUE

TypeOK ==
  /\ wasmPath \in BasePaths
  /\ basePath \in BasePaths
  /\ \A c \in Calls : calls[c].pc \in {"idle", "streamFetch", "streamInstantiate", "fallbackFetch",
                                       "arrayBuffer", "bufferInstantiate", "resolved", "rejected"}
  /\ \A f \in Files : loads[f].pc \in {"idle", "fetch", "stream", "resolved", "rejected"}
  /\ preload.pc \in {"idle", "waiting", "resolved", "rejected"}
  /\ validate.pc \in {"idle", "head", "done", "rejected"}
====
